---------------------------- MODULE Spec2Model ----------------------------
(***************************************************************************)
(* Model of 1_Monitoring_your_TensorFlow_scripts.ipynb: the notebook's     *)
(* cells run top to bottom against the training platform, the experiment   *)
(* tracking service and the clock.  Text that the code processes character *)
(* by character (regular expressions, log lines, trial names) is a         *)
(* sequence of one-character strings.                                      *)
(***************************************************************************)
EXTENDS Integers, Sequences, FiniteSets, TLC

VARIABLES
    pc,                  \* the cell the kernel runs next ("error": a cell raised)
    metric_definitions,  \* notebook variable; <<>> until its cell has run
    cifar10_experiment,  \* notebook variable: the loaded experiment's name, "" before
    trial_name,          \* notebook variable: text, <<>> before
    trial,               \* notebook variable: the Trial object's trial_name, <<>> before
    estimator,           \* notebook variable: the estimator object
    now,                 \* the wall clock, whole seconds
    experiments,         \* tracking service: names of the experiments that exist
    trials,              \* tracking service: the trials, in creation order
    create_calls,        \* tracking service: trial_name of every Trial.create request
    jobs,                \* training platform: the submitted jobs, in submission order
    sample,              \* regex check: the log line under test and how it was built
    captured             \* regex check: what each listed expression extracted

vars == <<pc, metric_definitions, cifar10_experiment, trial_name, trial, estimator,
          now, experiments, trials, create_calls, jobs, sample, captured>>

----------------------------------------------------------------------------
(* Bounds *)

\* how far the clock advances past its start
MaxTicks == 2
\* how far the clock is set back before its start
MaxSetBacks == 1
\* how many of ValueSamples the regex check draws the printed values from
NumValues == 5

----------------------------------------------------------------------------
(* Text helpers *)

Digit == {"0", "1", "2", "3", "4", "5", "6", "7", "8", "9"}

\* characters in code-point order, for the ranges of a character class
Ascii == <<"0", "1", "2", "3", "4", "5", "6", "7", "8", "9",
           "a", "b", "c", "d", "e", "f", "g", "h", "i", "j", "k", "l", "m",
           "n", "o", "p", "q", "r", "s", "t", "u", "v", "w", "x", "y", "z">>

Ord(c) == IF \E k \in DOMAIN Ascii : Ascii[k] = c
          THEN CHOOSE k \in DOMAIN Ascii : Ascii[k] = c
          ELSE 0

CharRange(a, b) == IF Ord(a) = 0 \/ Ord(b) = 0 THEN {a, b}
                   ELSE {Ascii[k] : k \in Ord(a)..Ord(b)}

RECURSIVE Sum(_)
Sum(s) == IF s = <<>> THEN 0 ELSE Head(s) + Sum(Tail(s))

RECURSIVE Concat(_)
Concat(ss) == IF ss = <<>> THEN <<>> ELSE Head(ss) \o Concat(Tail(ss))

\* int -> decimal text, as str(int) / an f-string prints a non-negative int
RECURSIVE ToStr(_)
ToStr(n) == IF n < 10 THEN <<Ascii[n + 1]>>
            ELSE ToStr(n \div 10) \o <<Ascii[(n % 10) + 1]>>

----------------------------------------------------------------------------
(* Regular expressions: the subset of Python's re syntax the notebook's    *)
(* expressions are written in: literals, backslash escapes, ".", character *)
(* classes with ranges, capture groups around atoms, and the quantifiers   *)
(* + * ? with their lazy forms.                                            *)

Quantifier == {"+", "*", "?"}

\* members of the character class whose first member is rx[i]; stops after "]"
RECURSIVE ParseClass(_, _, _)
ParseClass(rx, i, acc) ==
    IF i > Len(rx) THEN [chars |-> acc, next |-> i, ok |-> FALSE]
    ELSE IF rx[i] = "]" THEN [chars |-> acc, next |-> i + 1, ok |-> TRUE]
    ELSE IF rx[i] = "\\"
         THEN IF i + 1 > Len(rx) THEN [chars |-> acc, next |-> i, ok |-> FALSE]
              ELSE ParseClass(rx, i + 2, acc \cup {rx[i + 1]})
    ELSE IF i + 2 <= Len(rx) /\ rx[i + 1] = "-" /\ rx[i + 2] # "]"
         THEN ParseClass(rx, i + 3, acc \cup CharRange(rx[i], rx[i + 2]))
    ELSE ParseClass(rx, i + 1, acc \cup {rx[i]})

\* QuantAt without the lazy forms: a "?" after a quantifier is swallowed
QuantAtGreedy(rx, i) ==
    LET q    == IF i <= Len(rx) /\ rx[i] \in Quantifier THEN rx[i] ELSE ""
        lazy == q # "" /\ i + 1 <= Len(rx) /\ rx[i + 1] = "?"
    IN  [min  |-> IF q \in {"*", "?"} THEN 0 ELSE 1,
         many |-> q \in {"+", "*"},
         lazy |-> FALSE,
         next |-> IF q = "" THEN i ELSE IF lazy THEN i + 2 ELSE i + 1]

\* the quantifier that follows an atom ending before rx[i]
QuantAt(rx, i) ==
    LET q    == IF i <= Len(rx) /\ rx[i] \in Quantifier THEN rx[i] ELSE ""
        lazy == q # "" /\ i + 1 <= Len(rx) /\ rx[i + 1] = "?"
    IN  [min  |-> IF q \in {"*", "?"} THEN 0 ELSE 1,
         many |-> q \in {"+", "*"},
         lazy |-> lazy,
         next |-> IF q = "" THEN i ELSE IF lazy THEN i + 2 ELSE i + 1]

Item(any, chars, q, stack) ==
    [any |-> any, chars |-> chars, min |-> q.min, many |-> q.many,
     lazy |-> q.lazy, grp1 |-> \E k \in DOMAIN stack : stack[k] = 1]

\* rx from position i on; stack: the numbers of the groups open at i;
\* ngroups: capture groups opened so far
RECURSIVE ParseRx(_, _, _, _, _)
ParseRx(rx, i, stack, ngroups, items) ==
    IF i > Len(rx)
    THEN [items |-> items, ngroups |-> ngroups, ok |-> stack = <<>>]
    ELSE LET c == rx[i] IN
      CASE c = "(" ->
             ParseRx(rx, i + 1, stack \o <<ngroups + 1>>, ngroups + 1, items)
        [] c = ")" ->
             IF stack = <<>> \/ (i + 1 <= Len(rx) /\ rx[i + 1] \in Quantifier)
             THEN [items |-> items, ngroups |-> ngroups, ok |-> FALSE]
             ELSE ParseRx(rx, i + 1, SubSeq(stack, 1, Len(stack) - 1), ngroups, items)
        [] c = "[" ->
             LET cls == ParseClass(rx, i + 1, {})
                 q   == QuantAt(rx, cls.next)
             IN  IF ~cls.ok
                 THEN [items |-> items, ngroups |-> ngroups, ok |-> FALSE]
                 ELSE ParseRx(rx, q.next, stack, ngroups,
                              Append(items, Item(FALSE, cls.chars, q, stack)))
        [] c = "\\" ->
             IF i + 1 > Len(rx)
             THEN [items |-> items, ngroups |-> ngroups, ok |-> FALSE]
             ELSE LET q == QuantAt(rx, i + 2)
                  IN  ParseRx(rx, q.next, stack, ngroups,
                              Append(items, Item(FALSE, {rx[i + 1]}, q, stack)))
        [] c = "." ->
             LET q == QuantAt(rx, i + 1)
             IN  ParseRx(rx, q.next, stack, ngroups,
                         Append(items, Item(TRUE, {}, q, stack)))
        [] c \in Quantifier ->
             [items |-> items, ngroups |-> ngroups, ok |-> FALSE]
        [] OTHER ->
             LET q == QuantAt(rx, i + 1)
             IN  ParseRx(rx, q.next, stack, ngroups,
                         Append(items, Item(FALSE, {c}, q, stack)))

Compile(rx) == ParseRx(rx, 1, <<>>, 0, <<>>)

\* the number of capture groups of an expression
CountGroups(rx) == Compile(rx).ngroups

Accepts(it, ch) == IF it.any THEN ch # "\n" ELSE ch \in it.chars

\* how many characters from pos on the item can take at most
RECURSIVE RunLen(_, _, _, _)
RunLen(it, line, pos, k) ==
    IF (~it.many /\ k >= 1) \/ pos + k > Len(line) \/ ~Accepts(it, line[pos + k])
    THEN k
    ELSE RunLen(it, line, pos, k + 1)

NoMatch == <<-1>>

\* the first count the item tries, and the one it tries after k
FirstCount(it, run) == IF it.lazy THEN it.min ELSE run
NextCount(it, k) == IF it.lazy THEN k + 1 ELSE k - 1

\* items i.. against line from pos: the characters each item consumed, in the
\* backtracking order of the engine, or NoMatch
RECURSIVE MatchFrom(_, _, _, _)
RECURSIVE TryCount(_, _, _, _, _, _)
TryCount(items, i, line, pos, run, k) ==
    IF k < items[i].min \/ k > run THEN NoMatch
    ELSE LET rest == MatchFrom(items, i + 1, line, pos + k)
         IN  IF rest # NoMatch THEN <<k>> \o rest
             ELSE TryCount(items, i, line, pos, run, NextCount(items[i], k))
MatchFrom(items, i, line, pos) ==
    IF i > Len(items) THEN <<>>
    ELSE LET run == RunLen(items[i], line, pos, 0)
         IN  TryCount(items, i, line, pos, run, FirstCount(items[i], run))

\* re.search: the match at the leftmost position where one exists
RECURSIVE SearchFrom(_, _, _)
SearchFrom(items, line, start) ==
    IF start > Len(line) + 1 THEN [found |-> FALSE, start |-> 0, lens |-> <<>>]
    ELSE LET m == MatchFrom(items, 1, line, start)
         IN  IF m # NoMatch THEN [found |-> TRUE, start |-> start, lens |-> m]
             ELSE SearchFrom(items, line, start + 1)

\* the text of capture group 1 of a match
Group1(items, line, m) ==
    LET in1    == {k \in DOMAIN items : items[k].grp1}
        first  == IF in1 = {} THEN 1 ELSE CHOOSE k \in in1 : \A j \in in1 : k <= j
        before == Sum([k \in 1..(first - 1) |-> m.lens[k]])
        inside == Sum([k \in DOMAIN items |-> IF k \in in1 THEN m.lens[k] ELSE 0])
    IN  SubSeq(line, m.start + before, m.start + before + inside - 1)

\* what the platform extracts from one log line with one expression
Extract(rx, line) ==
    LET c == Compile(rx)
        m == IF c.ok THEN SearchFrom(c.items, line, 1)
             ELSE [found |-> FALSE, start |-> 0, lens |-> <<>>]
    IN  IF m.found /\ c.ngroups >= 1
        THEN [matched |-> TRUE, value |-> Group1(c.items, line, m)]
        ELSE [matched |-> FALSE, value |-> <<>>]

----------------------------------------------------------------------------
(* The expressions the notebook lists *)

\* loss: ([0-9\.]+) - acc: [0-9\.]+
RxTrainLoss ==
    <<"l", "o", "s", "s", ":", " ", "(", "[", "0", "-", "9", "\\", ".", "]", "+", ")",
      " ", "-", " ", "a", "c", "c", ":", " ", "[", "0", "-", "9", "\\", ".", "]", "+">>

\* loss: [0-9\.]+ - acc: ([0-9\.]+)
RxTrainAccuracy ==
    <<"l", "o", "s", "s", ":", " ", "[", "0", "-", "9", "\\", ".", "]", "+",
      " ", "-", " ", "a", "c", "c", ":", " ", "(", "[", "0", "-", "9", "\\", ".", "]", "+", ")">>

\* val_loss: [0-9\.]+ - val_acc: ([0-9\.]+)
RxValidationAccuracy ==
    <<"v", "a", "l", "_", "l", "o", "s", "s", ":", " ", "[", "0", "-", "9", "\\", ".", "]", "+",
      " ", "-", " ", "v", "a", "l", "_", "a", "c", "c", ":", " ",
      "(", "[", "0", "-", "9", "\\", ".", "]", "+", ")">>

\* val_loss: ([0-9\.]+) - val_acc: [0-9\.]+
RxValidationLoss ==
    <<"v", "a", "l", "_", "l", "o", "s", "s", ":", " ", "(", "[", "0", "-", "9", "\\", ".", "]", "+", ")",
      " ", "-", " ", "v", "a", "l", "_", "a", "c", "c", ":", " ",
      "[", "0", "-", "9", "\\", ".", "]", "+">>

\* Train_error=(.*?);
RxTrainError ==
    <<"T", "r", "a", "i", "n", "_", "e", "r", "r", "o", "r", "=", "(", ".", "*", "?", ")", ";">>

\* Valid_error=(.*?);
RxValidError ==
    <<"V", "a", "l", "i", "d", "_", "e", "r", "r", "o", "r", "=", "(", ".", "*", "?", ")", ";">>

\* loss: ([0-9\.]+) - acc: ([0-9\.]+)
RxTrainBoth ==
    <<"l", "o", "s", "s", ":", " ", "(", "[", "0", "-", "9", "\\", ".", "]", "+", ")",
      " ", "-", " ", "a", "c", "c", ":", " ", "(", "[", "0", "-", "9", "\\", ".", "]", "+", ")">>

\* the list with both values of the train expression in parentheses
AuthoredTwoGroups ==
    << [Name |-> "train:loss",          Regex |-> RxTrainBoth],
       [Name |-> "train:accuracy",      Regex |-> RxTrainAccuracy],
       [Name |-> "validation:accuracy", Regex |-> RxValidationAccuracy],
       [Name |-> "validation:loss",     Regex |-> RxValidationLoss] >>

\* the list with the third record's name copied to the fourth
AuthoredDuplicateName ==
    << [Name |-> "train:loss",          Regex |-> RxTrainLoss],
       [Name |-> "train:accuracy",      Regex |-> RxTrainAccuracy],
       [Name |-> "validation:accuracy", Regex |-> RxValidationAccuracy],
       [Name |-> "validation:accuracy", Regex |-> RxValidationLoss] >>

\* the list with the two validation expressions under each other's name
AuthoredSwappedValidation ==
    << [Name |-> "train:loss",          Regex |-> RxTrainLoss],
       [Name |-> "train:accuracy",      Regex |-> RxTrainAccuracy],
       [Name |-> "validation:accuracy", Regex |-> RxValidationLoss],
       [Name |-> "validation:loss",     Regex |-> RxValidationAccuracy] >>

\* the list the metric_definitions cell authors
AuthoredMetricDefinitions ==
    << [Name |-> "train:loss",          Regex |-> RxTrainLoss],
       [Name |-> "train:accuracy",      Regex |-> RxTrainAccuracy],
       [Name |-> "validation:accuracy", Regex |-> RxValidationAccuracy],
       [Name |-> "validation:loss",     Regex |-> RxValidationLoss] >>

\* the list of the Estimator example
ExampleMetricDefinitions ==
    << [Name |-> "train:error",      Regex |-> RxTrainError],
       [Name |-> "validation:error", Regex |-> RxValidError] >>

\* every expression the notebook lists
ListedDefinitions == AuthoredMetricDefinitions \o ExampleMetricDefinitions

AuthoredNames == {"train:loss", "train:accuracy", "validation:accuracy", "validation:loss"}
ExampleNames == {"train:error", "validation:error"}

ExperimentName == "TensorFlow-cifar10-experiment"

\* cifar10-training-job-
TrialPrefix ==
    <<"c", "i", "f", "a", "r", "1", "0", "-", "t", "r", "a", "i", "n", "i", "n", "g", "-",
      "j", "o", "b", "-">>

----------------------------------------------------------------------------
(* Log lines *)

\* values a training script may print after "loss: " and its like
ValueSamples ==
    << <<"0", ".", "5">>, <<"1">>, <<"2", ".">>, <<"1", ".", "2", ".", "3">>,
       <<".">>, <<"1", "0">> >>

Values == {ValueSamples[k] : k \in 1..(IF NumValues < Len(ValueSamples)
                                        THEN NumValues ELSE Len(ValueSamples))}

\* what may stand between "=" and ";" in a line of the Estimator example
TextValues == Values \cup {<<>>, <<"n", "a", "n">>}

\* what a progress line may start with: nothing, or the step timing "25s - "
Prefixes == {<<>>, <<"2", "5", "s", " ", "-", " ">>}

\* loss: A - acc: B - val_loss: C - val_acc: D
KerasLine(prefix, v) ==
    Concat(<< prefix,
              <<"l", "o", "s", "s", ":", " ">>, v[1],
              <<" ", "-", " ", "a", "c", "c", ":", " ">>, v[2],
              <<" ", "-", " ", "v", "a", "l", "_", "l", "o", "s", "s", ":", " ">>, v[3],
              <<" ", "-", " ", "v", "a", "l", "_", "a", "c", "c", ":", " ">>, v[4] >>)

\* Train_error=V;Valid_error=W;
ErrorLine(v) ==
    Concat(<< <<"T", "r", "a", "i", "n", "_", "e", "r", "r", "o", "r", "=">>, v[1], <<";">>,
              <<"V", "a", "l", "i", "d", "_", "e", "r", "r", "o", "r", "=">>, v[2], <<";">> >>)

\* Epoch 1/20
EpochLine == <<"E", "p", "o", "c", "h", " ", "1", "/", "2", "0">>

KerasSamples ==
    {[kind |-> "keras", vals |-> v, line |-> KerasLine(p, v)] :
        p \in Prefixes, v \in Values \X Values \X Values \X Values}

ErrorSamples ==
    {[kind |-> "error", vals |-> v, line |-> ErrorLine(v)] : v \in TextValues \X TextValues}

OtherSamples == {[kind |-> "other", vals |-> <<>>, line |-> EpochLine]}

Samples == KerasSamples \cup ErrorSamples \cup OtherSamples

NoSample == [kind |-> "none", vals |-> <<>>, line |-> <<>>]

----------------------------------------------------------------------------
(* State *)

\* the clock when the run starts
ClockStart == 9

Unmatched == [matched |-> FALSE, value |-> <<>>]

NothingCaptured == [n \in AuthoredNames \cup ExampleNames |-> Unmatched]

NoEstimator == [metric_definitions |-> <<>>, latest_training_job |-> 0]

Terminal == {"Completed", "Failed"}

TrialNames == {trials[k].TrialName : k \in DOMAIN trials}

Init ==
    /\ pc = "metric_definitions"
    /\ metric_definitions = <<>>
    /\ cifar10_experiment = ""
    /\ trial_name = <<>>
    /\ trial = <<>>
    /\ estimator = NoEstimator
    /\ now = ClockStart
    /\ experiments \in {{ExperimentName}, {}}
    /\ trials = <<>>
    /\ create_calls = <<>>
    /\ jobs = <<>>
    /\ sample = NoSample
    /\ captured = NothingCaptured

----------------------------------------------------------------------------
(* The notebook's cells *)

Raise == pc' = "error"

CellMetricDefinitions ==
    /\ pc = "metric_definitions"
    /\ metric_definitions' = AuthoredMetricDefinitions
    /\ pc' = "session"
    /\ UNCHANGED <<cifar10_experiment, trial_name, trial, estimator, now, experiments,
                   trials, create_calls, jobs, sample, captured>>

CellSession ==
    /\ pc = "session"
    /\ pc' = "load_experiment"
    /\ UNCHANGED <<metric_definitions, cifar10_experiment, trial_name, trial,
                   estimator, now, experiments, trials, create_calls, jobs, sample,
                   captured>>

\* Experiment.load raises when the experiment does not exist
CellLoadExperiment ==
    /\ pc = "load_experiment"
    /\ IF ExperimentName \in experiments
       THEN cifar10_experiment' = ExperimentName /\ pc' = "trial1"
       ELSE Raise /\ UNCHANGED cifar10_experiment
    /\ UNCHANGED <<metric_definitions, trial_name, trial, estimator, now, experiments,
                   trials, create_calls, jobs, sample, captured>>

\* f"cifar10-training-job-{int(time.time())}"
NewTrialName(t) == TrialPrefix \o ToStr(t)

\* trial_name = ...; trial = Trial.create(trial_name=..., experiment_name=...):
\* the service refuses a name in use, and then the cell raises before trial is bound
CreateTrial(next) ==
    LET name == NewTrialName(now) IN
    /\ trial_name' = name
    /\ create_calls' = Append(create_calls, name)
    /\ IF name \in TrialNames
       THEN Raise /\ UNCHANGED <<trial, trials>>
       ELSE /\ trials' = Append(trials, [TrialName |-> name,
                                         ExperimentName |-> cifar10_experiment])
            /\ trial' = name
            /\ pc' = next
    /\ UNCHANGED <<metric_definitions, cifar10_experiment, estimator, now, experiments,
                   jobs, sample, captured>>

CellTrial1 == pc = "trial1" /\ CreateTrial("upload")

CellUpload ==
    /\ pc = "upload"
    /\ pc' = "estimator1"
    /\ UNCHANGED <<metric_definitions, cifar10_experiment, trial_name, trial,
                   estimator, now, experiments, trials, create_calls, jobs, sample,
                   captured>>

\* an estimator given the train definitions only
NewEstimatorTrainOnly(md) ==
    [metric_definitions |-> SubSeq(md, 1, 2), latest_training_job |-> 0]

\* estimator = TensorFlow(..., metric_definitions=metric_definitions)
NewEstimator(md) == [metric_definitions |-> md, latest_training_job |-> 0]

CellEstimator1 ==
    /\ pc = "estimator1"
    /\ estimator' = NewEstimator(metric_definitions)
    /\ pc' = "fit1"
    /\ UNCHANGED <<metric_definitions, cifar10_experiment, trial_name, trial, now,
                   experiments, trials, create_calls, jobs, sample, captured>>

\* a configuration built for the first trial and used again
StaleExperimentConfig ==
    [ExperimentName |-> cifar10_experiment,
     TrialName |-> IF trials = <<>> THEN trial ELSE trials[1].TrialName]

\* experiment_config={"ExperimentName": cifar10_experiment.experiment_name,
\*                    "TrialName": trial.trial_name, ...}
ExperimentConfig == [ExperimentName |-> cifar10_experiment, TrialName |-> trial]

\* the request estimator.fit sends: the platform starts the job
Submit(cfg) ==
    /\ jobs' = Append(jobs, [status            |-> "InProgress",
                             MetricDefinitions |-> estimator.metric_definitions,
                             ExperimentName    |-> cfg.ExperimentName,
                             TrialName         |-> cfg.TrialName])
    /\ estimator' = [estimator EXCEPT !.latest_training_job = Len(jobs) + 1]

\* estimator.fit(..., experiment_config=...): wait defaults to True
CellFit1 ==
    /\ pc = "fit1"
    /\ Submit(ExperimentConfig)
    /\ pc' = "fit1_wait"
    /\ UNCHANGED <<metric_definitions, cifar10_experiment, trial_name, trial, now,
                   experiments, trials, create_calls, sample, captured>>

\* a fit that returns once the job is submitted
CellFit1ReturnAtOnce ==
    /\ pc = "fit1_wait"
    /\ pc' = "link"
    /\ UNCHANGED <<metric_definitions, cifar10_experiment, trial_name, trial,
                   estimator, now, experiments, trials, create_calls, jobs, sample,
                   captured>>

\* the blocking fit returns when the job has ended, and raises when it failed
CellFit1Return ==
    /\ pc = "fit1_wait"
    /\ jobs[estimator.latest_training_job].status \in Terminal
    /\ IF jobs[estimator.latest_training_job].status = "Completed"
       THEN pc' = "link"
       ELSE Raise
    /\ UNCHANGED <<metric_definitions, cifar10_experiment, trial_name, trial,
                   estimator, now, experiments, trials, create_calls, jobs, sample,
                   captured>>

\* link = ... + estimator.latest_training_job.job_name
CellLink ==
    /\ pc = "link"
    /\ estimator.latest_training_job \in DOMAIN jobs
    /\ pc' = "trial2"
    /\ UNCHANGED <<metric_definitions, cifar10_experiment, trial_name, trial,
                   estimator, now, experiments, trials, create_calls, jobs, sample,
                   captured>>

CellTrial2 == pc = "trial2" /\ CreateTrial("estimator2")

CellEstimator2 ==
    /\ pc = "estimator2"
    /\ estimator' = NewEstimator(metric_definitions)
    /\ pc' = "fit2"
    /\ UNCHANGED <<metric_definitions, cifar10_experiment, trial_name, trial, now,
                   experiments, trials, create_calls, jobs, sample, captured>>

\* estimator.fit(..., experiment_config=..., wait=False)
CellFit2 ==
    /\ pc = "fit2"
    /\ Submit(ExperimentConfig)
    /\ pc' = "tensorboard"
    /\ UNCHANGED <<metric_definitions, cifar10_experiment, trial_name, trial, now,
                   experiments, trials, create_calls, sample, captured>>

CellTensorBoard ==
    /\ pc = "tensorboard"
    /\ pc' = "search_expression"
    /\ UNCHANGED <<metric_definitions, cifar10_experiment, trial_name, trial,
                   estimator, now, experiments, trials, create_calls, jobs, sample,
                   captured>>

CellSearchExpression ==
    /\ pc = "search_expression"
    /\ pc' = "analytics"
    /\ UNCHANGED <<metric_definitions, cifar10_experiment, trial_name, trial,
                   estimator, now, experiments, trials, create_calls, jobs, sample,
                   captured>>

CellAnalytics ==
    /\ pc = "analytics"
    /\ pc' = "done"
    /\ UNCHANGED <<metric_definitions, cifar10_experiment, trial_name, trial,
                   estimator, now, experiments, trials, create_calls, jobs, sample,
                   captured>>

\* the kernel runs the next cell
Notebook ==
    \/ CellMetricDefinitions \/ CellSession \/ CellLoadExperiment \/ CellTrial1
    \/ CellUpload \/ CellEstimator1 \/ CellFit1 \/ CellFit1Return \/ CellLink
    \/ CellTrial2 \/ CellEstimator2 \/ CellFit2 \/ CellTensorBoard
    \/ CellSearchExpression \/ CellAnalytics

----------------------------------------------------------------------------
(* The training platform and the clock *)

JobComplete(j) ==
    /\ jobs[j].status = "InProgress"
    /\ jobs' = [jobs EXCEPT ![j].status = "Completed"]
    /\ UNCHANGED <<pc, metric_definitions, cifar10_experiment, trial_name, trial,
                   estimator, now, experiments, trials, create_calls, sample, captured>>

JobFail(j) ==
    /\ jobs[j].status = "InProgress"
    /\ jobs' = [jobs EXCEPT ![j].status = "Failed"]
    /\ UNCHANGED <<pc, metric_definitions, cifar10_experiment, trial_name, trial,
                   estimator, now, experiments, trials, create_calls, sample, captured>>

Platform ==
    \/ \E j \in DOMAIN jobs : JobComplete(j)
    \/ \E j \in DOMAIN jobs : JobFail(j)

\* a second passes
Tick ==
    /\ now < ClockStart + MaxTicks
    /\ now' = now + 1
    /\ UNCHANGED <<pc, metric_definitions, cifar10_experiment, trial_name, trial,
                   estimator, experiments, trials, create_calls, jobs, sample,
                   captured>>

\* time.time() is the wall clock: the system clock may be set back
ClockSetBack ==
    /\ now > ClockStart - MaxSetBacks
    /\ now > 0
    /\ now' = now - 1
    /\ UNCHANGED <<pc, metric_definitions, cifar10_experiment, trial_name, trial,
                   estimator, experiments, trials, create_calls, jobs, sample,
                   captured>>

Clock == Tick \/ ClockSetBack

Next == Notebook \/ Platform \/ Clock

Spec == Init /\ [][Next]_vars

----------------------------------------------------------------------------
(* Checking the listed expressions against log lines, as the notebook asks   *)
(* the reader to do with a regex tool                                        *)

InitRegex ==
    /\ pc = "regex_check"
    /\ metric_definitions = AuthoredMetricDefinitions
    /\ cifar10_experiment = ""
    /\ trial_name = <<>>
    /\ trial = <<>>
    /\ estimator = NoEstimator
    /\ now = ClockStart
    /\ experiments = {ExperimentName}
    /\ trials = <<>>
    /\ create_calls = <<>>
    /\ jobs = <<>>
    /\ sample \in Samples
    /\ captured = NothingCaptured

\* every listed expression is searched in the sample line
ApplyExpressions ==
    /\ pc = "regex_check"
    /\ captured' = [n \in AuthoredNames \cup ExampleNames |->
                      LET k == CHOOSE i \in DOMAIN ListedDefinitions :
                                  ListedDefinitions[i].Name = n
                      IN  Extract(ListedDefinitions[k].Regex, sample.line)]
    /\ pc' = "regex_done"
    /\ UNCHANGED <<metric_definitions, cifar10_experiment, trial_name, trial,
                   estimator, now, experiments, trials, create_calls, jobs, sample>>

NextRegex == ApplyExpressions

SpecRegex == InitRegex /\ [][NextRegex]_vars

----------------------------------------------------------------------------
(* Properties *)

\* text that parses as a decimal number: digits with at most one point
WellFormedDecimal(s) ==
    /\ s # <<>>
    /\ \A k \in DOMAIN s : s[k] \in Digit \cup {"."}
    /\ \E k \in DOMAIN s : s[k] \in Digit
    /\ Cardinality({k \in DOMAIN s : s[k] = "."}) <= 1

Hit(v) == [matched |-> TRUE, value |-> v]

\* C1: every record of the authored metric_definitions list has exactly the
\* fields Name and Regex, the four names are the listed ones, and each Regex
\* is well formed with exactly one capture group.
C1_RecordShape ==
    /\ metric_definitions # <<>> =>
         {metric_definitions[k].Name : k \in DOMAIN metric_definitions} = AuthoredNames
    /\ \A k \in DOMAIN metric_definitions :
         /\ DOMAIN metric_definitions[k] = {"Name", "Regex"}
         /\ Compile(metric_definitions[k].Regex).ok
         /\ CountGroups(metric_definitions[k].Regex) = 1

C1_Witness == pc = "session" /\ Len(metric_definitions) = 4

\* C2 as stated: whenever a listed expression matches a log line, the text of
\* its capture group is a well-formed decimal number.
C2_Original ==
    pc = "regex_done" =>
        \A n \in AuthoredNames \cup ExampleNames :
            captured[n].matched => WellFormedDecimal(captured[n].value)

\* C2 as amended: whenever one of the four metric_definitions expressions
\* matches, its capture is a non-empty string of digits and points; on a line
\* Train_error=V;Valid_error=W; the two example expressions capture V and W,
\* the text up to the first ";", whatever it is.
C2_Amended ==
    pc = "regex_done" =>
        /\ \A n \in AuthoredNames :
              captured[n].matched =>
                  /\ captured[n].value # <<>>
                  /\ \A k \in DOMAIN captured[n].value :
                        captured[n].value[k] \in Digit \cup {"."}
        /\ \A n \in ExampleNames :
              captured[n].matched =>
                  \A k \in DOMAIN captured[n].value : captured[n].value[k] # ";"
        /\ sample.kind = "error" =>
              /\ captured["train:error"] = Hit(sample.vals[1])
              /\ captured["validation:error"] = Hit(sample.vals[2])

C2_Witness ==
    /\ pc = "regex_done"
    /\ captured["train:loss"] = Hit(<<"1", ".", "2", ".", "3">>)
    /\ ~WellFormedDecimal(captured["train:loss"].value)

\* C3: the Name values of the definitions handed to one job submission are
\* pairwise distinct.
C3_NamesDistinct ==
    \A j \in DOMAIN jobs :
        \A a, b \in DOMAIN jobs[j].MetricDefinitions :
            a # b => jobs[j].MetricDefinitions[a].Name # jobs[j].MetricDefinitions[b].Name

C3_Witness == Len(jobs) = 2 /\ Len(jobs[2].MetricDefinitions) = 4

\* C4: the list is handed over verbatim: once authored the notebook variable
\* holds the authored list, and the estimator and every submitted job hold
\* that same sequence, element for element and in the same order.
C4_Verbatim ==
    /\ pc # "metric_definitions" => metric_definitions = AuthoredMetricDefinitions
    /\ estimator # NoEstimator => estimator.metric_definitions = AuthoredMetricDefinitions
    /\ \A j \in DOMAIN jobs : jobs[j].MetricDefinitions = AuthoredMetricDefinitions

C4_Witness ==
    /\ pc = "done"
    /\ Len(jobs) = 2
    /\ jobs[1].MetricDefinitions[3].Name = "validation:accuracy"

AfterFit1 == {"link", "trial2", "estimator2", "fit2", "tensorboard",
              "search_expression", "analytics", "done"}

AfterFit2 == {"tensorboard", "search_expression", "analytics"}

\* C6: the cells after the first fit run only once the first job has ended;
\* after the second fit (wait=False) the following cells can run whatever the
\* state of the second job, and no cell but the blocking fit waits for a job.
C6_Blocking ==
    /\ pc \in AfterFit1 => Len(jobs) >= 1 /\ jobs[1].status \in Terminal
    /\ pc \in AfterFit2 => Len(jobs) = 2 /\ ENABLED Notebook
    /\ pc \notin {"fit1_wait", "done", "error", "regex_check", "regex_done"}
          => ENABLED Notebook

C6_Witness == pc = "done" /\ Len(jobs) = 2 /\ jobs[2].status = "InProgress"

\* C7: a job is submitted only after a trial was created, with the loaded
\* experiment and the trial of the most recent Trial.create, which exists;
\* the k-th job is attached to the k-th trial only, so the second job is
\* never attached to the first trial; a job's trial never changes.
C7_TrialPerJob ==
    [][ /\ Len(jobs') > Len(jobs) =>
             /\ trials # <<>>
             /\ Len(jobs') = Len(trials)
             /\ jobs'[Len(jobs')].TrialName = trials[Len(trials)].TrialName
             /\ jobs'[Len(jobs')].ExperimentName = ExperimentName
             /\ trials[Len(trials)].ExperimentName = ExperimentName
             /\ \A k \in 1..(Len(trials) - 1) :
                   trials[k].TrialName # jobs'[Len(jobs')].TrialName
        /\ \A j \in DOMAIN jobs :
             /\ jobs'[j].TrialName = jobs[j].TrialName
             /\ jobs'[j].ExperimentName = jobs[j].ExperimentName
      ]_vars

C7_Witness ==
    /\ Len(jobs) = 2
    /\ Len(trials) = 2
    /\ jobs[2].TrialName = trials[2].TrialName
    /\ jobs[2].TrialName # jobs[1].TrialName

\* C8: on a line "loss: A - acc: B - val_loss: C - val_acc: D", with or
\* without text before it, train:loss captures A, train:accuracy B,
\* validation:loss C and validation:accuracy D.
C8_NoCrossOver ==
    (pc = "regex_done" /\ sample.kind = "keras") =>
        /\ captured["train:loss"] = Hit(sample.vals[1])
        /\ captured["train:accuracy"] = Hit(sample.vals[2])
        /\ captured["validation:loss"] = Hit(sample.vals[3])
        /\ captured["validation:accuracy"] = Hit(sample.vals[4])

C8_Witness ==
    /\ pc = "regex_done"
    /\ sample.kind = "keras"
    /\ Cardinality({sample.vals[k] : k \in 1..4}) = 4
    /\ sample.line[1] = "2"
    /\ captured["train:loss"].value # captured["validation:loss"].value

\* C9 as stated: the second Trial.create is never asked for the name given to
\* the first.
C9_DistinctTrialNames ==
    Len(create_calls) >= 2 => create_calls[1] # create_calls[2]

=============================================================================
